---- MODULE Spec2Model ----
(***************************************************************************)
(* Model of @outboundiq/nextjs: the request context store                  *)
(* (src/context/request-context.ts), the edge tracking adapters            *)
(* (src/edge.ts) and the middleware wrapper (src/middleware.ts).           *)
(*                                                                         *)
(* Six specifications share the variables:                                 *)
(*   SpecCtx     - the AsyncLocalStorage-backed request context store      *)
(*   SpecEdge    - ensureInitialized / initEdge / trackFetch / axios       *)
(*   SpecMw      - the withOutboundIQ middleware wrapper                   *)
(*   SpecFn      - the pure functions: resolvers, body capture, config     *)
(*   SpecReg     - the register module beside the request scopes           *)
(*   SpecWrapped - withUserContext around concurrent handlers              *)
(***************************************************************************)
EXTENDS Integers, Sequences, FiniteSets, TLC

\* ------------------------------------------------------------------ bounds
MaxTasks == 3
MaxCtx == 2
MaxInstalls == 2
MaxHandlers == 2

\* ----------------------------------------------------------------- values
Null == "null"
\* the store of a lineage outside every run scope (getStore() gives undefined)
Undefined == 0
Users == {"u1", "u2"}
UserVals == Users \cup {Null}
Tasks == 1..MaxTasks
Ctxs == 1..MaxCtx

VARIABLES
    \* --- request context store
    ctxAlloc,     \* RequestContext objects created so far
    ctxUser,      \* ctxUser[c]: the userContext field of RequestContext c
    taskPc,       \* taskPc[t]: "free" | "run" for async lineage t
    store,        \* store[t]: what requestContextStorage holds for lineage t
    scope,        \* scope[t]: the context of the runWithContext call t descends from
    root,         \* root[t]: the lineage that entered t's runWithContext scope
    own,          \* own[r]: the userContext request r was created with / last set
    seen,         \* the observation made by the step just taken (made = FALSE: none)
    \* --- tracking client facade and adapters (edge.ts)
    envKey,       \* process.env.OUTBOUNDIQ_KEY is set
    isInitialized,\* the module-level flag of edge.ts
    client,       \* getClient() returns a client (init has created one)
    registerLoaded,\* the register module has been loaded
    explicitKey,  \* an API key has been passed explicitly to initEdge
    initLog,      \* the calls made to init, in order
    reg,          \* the register module: the calls its body made, and the last
                  \* answer of the resolver it registered
    wrapped,      \* the handlers wrapped by withUserContext that are in flight,
                  \* and the value last passed to setUserContext of the client
    axInst,       \* the response interceptor pairs registered on the axios instance
    axReq,        \* the request interceptor pairs registered on the axios instance
    call,         \* the tracked call in flight: a trackFetch invocation or an axios request
    \* --- middleware wrapper (middleware.ts)
    mw,           \* the wrapper invocation in flight
    \* --- resolvers, header codec and body capture (pure functions)
    fn            \* the function application just made: its name, input and result

\* no pure function has been applied yet
IdleFn == [op |-> "none"]

ctxVars == <<ctxAlloc, ctxUser, taskPc, store, scope, root, own, seen>>
procVars == <<envKey, isInitialized, client, registerLoaded, explicitKey, initLog, reg,
              wrapped>>
edgeVars == <<envKey, isInitialized, client, registerLoaded, explicitKey, initLog, reg,
              wrapped, axInst, axReq, call>>
mwVars == <<mw>>
fnVars == <<fn>>
vars == <<ctxAlloc, ctxUser, taskPc, store, scope, root, own, seen,
          envKey, isInitialized, client, registerLoaded, explicitKey, initLog, reg,
          wrapped, axInst, axReq, call, mw, fn>>

\* ---------------------------------------------------------------------------
\* Request context store (src/context/request-context.ts)
\* ---------------------------------------------------------------------------

\* createRequestContext(userContext): a new object holding userContext
createRequestContext(c, u) ==
    /\ c \notin ctxAlloc
    /\ \A d \in Ctxs : d < c => d \in ctxAlloc
    /\ ctxAlloc' = ctxAlloc \cup {c}
    /\ ctxUser' = [ctxUser EXCEPT ![c] = u]

\* a store kept in one module-level variable: the context created last
getRequestContext_global(t) ==
    IF ctxAlloc = {} THEN Undefined
    ELSE CHOOSE c \in ctxAlloc : \A d \in ctxAlloc : d <= c

\* requestContextStorage.getStore() evaluated in async lineage t
getRequestContext(t) == store[t]

\* context?.userContext ?? null
getCurrentUserContext(t) ==
    LET context == getRequestContext(t)
    IN  IF context = Undefined THEN Null ELSE ctxUser[context]

\* a store that does not survive a suspension point
InheritStore_lost(p) == Undefined

\* the store a continuation scheduled by lineage p runs with: AsyncLocalStorage
\* copies the store of the scheduling execution into the new async resource
InheritStore(p) == store[p]

\* lineages are numbered in the order they start
NextFree(t) == taskPc[t] = "free" /\ \A d \in Tasks : d < t => taskPc[d] # "free"

\* Has any other request entered a scope on the same RequestContext object?
Shared(t) ==
    \E t2 \in Tasks : /\ taskPc[t2] # "free"
                      /\ root[t2] # root[t]
                      /\ scope[t2] = scope[t]

NoSeen ==
    [made |-> FALSE, task |-> 1, ctx |-> Undefined, user |-> Null, scope |-> Undefined,
     want |-> Null, shared |-> FALSE]

CtxInit ==
    /\ ctxAlloc = {}
    /\ ctxUser = [c \in Ctxs |-> Null]
    /\ taskPc = [t \in Tasks |-> "free"]
    /\ store = [t \in Tasks |-> Undefined]
    /\ scope = [t \in Tasks |-> Undefined]
    /\ root = [t \in Tasks |-> t]
    /\ own = [t \in Tasks |-> Null]
    /\ seen = NoSeen

\* a caller creates a RequestContext
CreateRequestContext(c, u) ==
    /\ createRequestContext(c, u)
    /\ seen' = NoSeen
    /\ UNCHANGED <<taskPc, store, scope, root, own, edgeVars, mwVars, fnVars>>

\* runWithContext(c, fn): fn starts as lineage t with c as its store
RunWithContext(t, c) ==
    /\ NextFree(t)
    /\ c \in ctxAlloc
    /\ taskPc' = [taskPc EXCEPT ![t] = "run"]
    /\ store' = [store EXCEPT ![t] = c]
    /\ scope' = [scope EXCEPT ![t] = c]
    /\ root' = [root EXCEPT ![t] = t]
    /\ own' = [own EXCEPT ![t] = ctxUser[c]]
    /\ seen' = NoSeen
    /\ UNCHANGED <<ctxAlloc, ctxUser, edgeVars, mwVars, fnVars>>

\* code that runs outside every runWithContext scope
RunOutside(t) ==
    /\ NextFree(t)
    /\ taskPc' = [taskPc EXCEPT ![t] = "run"]
    /\ store' = [store EXCEPT ![t] = Undefined]
    /\ scope' = [scope EXCEPT ![t] = Undefined]
    /\ root' = [root EXCEPT ![t] = t]
    /\ own' = [own EXCEPT ![t] = Null]
    /\ seen' = NoSeen
    /\ UNCHANGED <<ctxAlloc, ctxUser, edgeVars, mwVars, fnVars>>

\* lineage p schedules an asynchronous continuation, which runs as lineage t
Schedule(p, t) ==
    /\ taskPc[p] = "run"
    /\ NextFree(t)
    /\ taskPc' = [taskPc EXCEPT ![t] = "run"]
    /\ store' = [store EXCEPT ![t] = InheritStore(p)]
    /\ scope' = [scope EXCEPT ![t] = scope[p]]
    /\ root' = [root EXCEPT ![t] = root[p]]
    /\ seen' = NoSeen
    /\ UNCHANGED <<ctxAlloc, ctxUser, own, edgeVars, mwVars, fnVars>>

\* a setCurrentUserContext that keeps one user for the whole process
SetCurrentUserContext_processWide(t, u) ==
    /\ taskPc[t] = "run"
    /\ ctxUser' = [c \in Ctxs |-> u]
    /\ own' = [own EXCEPT ![root[t]] = IF scope[t] # Undefined THEN u ELSE @]
    /\ seen' = NoSeen
    /\ UNCHANGED <<ctxAlloc, taskPc, store, scope, root, edgeVars, mwVars, fnVars>>

\* setCurrentUserContext(u) called in lineage t
SetCurrentUserContext(t, u) ==
    /\ taskPc[t] = "run"
    /\ LET context == getRequestContext(t)
       IN  IF context # Undefined
           THEN ctxUser' = [ctxUser EXCEPT ![context] = u]
           ELSE ctxUser' = ctxUser
    /\ own' = [own EXCEPT ![root[t]] = IF scope[t] # Undefined THEN u ELSE @]
    /\ seen' = NoSeen
    /\ UNCHANGED <<ctxAlloc, taskPc, store, scope, root, edgeVars, mwVars, fnVars>>

\* getRequestContext() / getCurrentUserContext() called in lineage t after a
\* suspension point; the observation is kept with what the request expects
Observe(t) ==
    /\ taskPc[t] = "run"
    /\ seen' = [made |-> TRUE,
                task |-> t,
                ctx |-> getRequestContext(t),
                user |-> getCurrentUserContext(t),
                scope |-> scope[t],
                want |-> own[root[t]],
                shared |-> Shared(t)]
    /\ UNCHANGED <<ctxAlloc, ctxUser, taskPc, store, scope, root, own, edgeVars, mwVars, fnVars>>

CtxNext ==
    \/ \E c \in Ctxs, u \in UserVals : CreateRequestContext(c, u)
    \/ \E t \in Tasks, c \in Ctxs : RunWithContext(t, c)
    \/ \E t \in Tasks : RunOutside(t)
    \/ \E p \in Tasks, t \in Tasks : Schedule(p, t)
    \/ \E t \in Tasks, u \in UserVals : SetCurrentUserContext(t, u)
    \/ \E t \in Tasks : Observe(t)

\* ---------------------------------------------------------------------------
\* Tracking client facade (src/edge.ts): ensureInitialized, initEdge, and the
\* register module, which calls the same external init
\* ---------------------------------------------------------------------------

\* init(config) of the external client: the call is logged, a client exists after
init(by, key, batch, interval) ==
    /\ initLog' = Append(initLog, [by |-> by, apiKey |-> key,
                                   batchSize |-> batch, flushInterval |-> interval])
    /\ client' = TRUE

\* the value ensureInitialized() returns
ensureInitializedResult == isInitialized \/ client \/ envKey

\* the effect of ensureInitialized() on the process state
ensureInitialized ==
    IF isInitialized \/ client
    THEN UNCHANGED <<isInitialized, client, initLog>>
    ELSE IF ~envKey
         THEN UNCHANGED <<isInitialized, client, initLog>>
         ELSE /\ init("ensureInitialized", "env", 1, 1000)
              /\ isInitialized' = TRUE

\* what an initEdge config may say about apiKey: not given, "" or a key
CfgKeys == {"absent", "empty", "key"}

\* initEdge(config)
initEdge(cfgKey) ==
    IF isInitialized
    THEN UNCHANGED <<isInitialized, client, initLog>>
    ELSE IF cfgKey # "key" /\ ~envKey
         THEN UNCHANGED <<isInitialized, client, initLog>>
         ELSE /\ init("initEdge",
                      \* apiKey, then ...config spread over it
                      IF cfgKey = "absent" THEN "env" ELSE cfgKey,
                      5, 1000)
              /\ isInitialized' = TRUE

InitEdge(cfgKey) ==
    /\ initEdge(cfgKey)
    /\ explicitKey' = (explicitKey \/ cfgKey = "key")
    /\ UNCHANGED <<envKey, registerLoaded, reg, wrapped, axInst, axReq, call, ctxVars, mwVars, fnVars>>

\* the resolver has not been asked
NoAsk == [made |-> FALSE, task |-> 1, answer |-> Null, ambient |-> Null]
IdleReg == [calls |-> <<>>, asked |-> NoAsk]

\* the calls the body of the register module makes when the key is set
RegisterCalls ==
    <<"init", "setUserContextResolver", "register", "on SIGTERM", "on SIGINT">>

\* the body of the register module, run once when the module is first loaded
RegisterLoad ==
    /\ ~registerLoaded
    /\ registerLoaded' = TRUE
    /\ IF envKey
       THEN /\ init("register", "env", 10, 5000)
            /\ reg' = [reg EXCEPT !.calls = @ \o RegisterCalls]
       ELSE UNCHANGED <<client, initLog, reg>>
    /\ UNCHANGED <<envKey, isInitialized, explicitKey, wrapped, axInst, axReq, call,
                   ctxVars, mwVars, fnVars>>

\* requestContextStorage.getStore() of the register bundle: the bundle creates
\* an AsyncLocalStorage of its own and has no function that runs anything in it
registerGetRequestContext(t) == Undefined

\* getCurrentUserContext() of the register bundle: context?.userContext ?? null
registerGetCurrentUserContext(t) ==
    LET context == registerGetRequestContext(t)
    IN  IF context = Undefined THEN Null ELSE ctxUser[context]

\* the transport patch asks the registered resolver in lineage t; what the
\* package's getCurrentUserContext() gives there is kept beside the answer
ResolverAsk(t) ==
    /\ taskPc[t] = "run"
    /\ \E i \in DOMAIN reg.calls : reg.calls[i] = "setUserContextResolver"
    /\ reg' = [reg EXCEPT !.asked =
                 [made |-> TRUE, task |-> t,
                  answer |-> registerGetCurrentUserContext(t),
                  ambient |-> getCurrentUserContext(t)]]
    /\ UNCHANGED <<envKey, isInitialized, client, registerLoaded, explicitKey,
                   initLog, wrapped, axInst, axReq, call, ctxVars, mwVars, fnVars>>

\* ---------------------------------------------------------------------------
\* withUserContext (src/index.ts): handlers wrapped with a fixed user context
\* ---------------------------------------------------------------------------
Handlers == 1..MaxHandlers

\* no wrapped handler has been called; nothing was passed to setUserContext
IdleWrapped ==
    [pc |-> [h \in Handlers |-> "idle"],
     user |-> [h \in Handlers |-> Null],
     result |-> [h \in Handlers |-> "none"],
     settled |-> 0,
     current |-> Null]

\* setUserContext(u) of the client: u is the value last passed
setUserContext(w, u) == [w EXCEPT !.current = u]

\* the function withUserContext(handler, u) returned is called: it awaits the
\* import of the client
WrappedCall(h, u) ==
    /\ wrapped.pc[h] = "idle"
    /\ wrapped' = [wrapped EXCEPT !.pc[h] = "importing", !.user[h] = u,
                                  !.result[h] = "none"]
    /\ UNCHANGED <<envKey, isInitialized, client, registerLoaded, explicitKey,
                   initLog, reg, axInst, axReq, call, ctxVars, mwVars, fnVars>>

\* the import has settled: setUserContext(userContext), then handler(...args)
\* is called and awaited
WrappedEnter(h) ==
    /\ wrapped.pc[h] = "importing"
    /\ wrapped' = [setUserContext(wrapped, wrapped.user[h]) EXCEPT !.pc[h] = "running"]
    /\ UNCHANGED <<envKey, isInitialized, client, registerLoaded, explicitKey,
                   initLog, reg, axInst, axReq, call, ctxVars, mwVars, fnVars>>

\* the awaited handler settles (it returns or throws): finally
\* setUserContext(null), and the caller gets the outcome
WrappedSettle(h, out) ==
    /\ wrapped.pc[h] = "running"
    /\ wrapped' = [setUserContext(wrapped, Null) EXCEPT
                      !.pc[h] = "idle", !.result[h] = out,
                      !.settled = IF @ < MaxHandlers THEN @ + 1 ELSE @]
    /\ UNCHANGED <<envKey, isInitialized, client, registerLoaded, explicitKey,
                   initLog, reg, axInst, axReq, call, ctxVars, mwVars, fnVars>>

\* ---------------------------------------------------------------------------
\* trackFetch (src/edge.ts)
\* ---------------------------------------------------------------------------

\* values a failed call carries: what fetch threw, or what tracking threw
FetchErrors == {"E_msg", "E_empty", "E_nonError"}
AxiosErrors == {"AE_resp", "AE_net"}
Statuses == {200, 500}

\* error instanceof Error ? error.message : 'Unknown error'
FetchMessage(e) ==
    CASE e = "E_msg" -> "fetch failed"
      [] e = "E_empty" -> ""
      [] e = "E_nonError" -> "Unknown error"
      [] e = "T" -> "track failed"
      [] e = "F" -> "flush failed"
      [] OTHER -> "error"

\* error.message of what an axios error interceptor receives
AxiosMessage(e) ==
    CASE e = "AE_resp" -> "Request failed with status code 500"
      [] e = "AE_net" -> "Network Error"
      [] e = "T" -> "track failed"
      [] e = "F" -> "flush failed"
      [] e = "N" -> "toJSON failed"
      [] OTHER -> "error"

IdleCall ==
    [pc |-> "idle", kind |-> "fetch", task |-> 1, initialized |-> FALSE,
     override |-> Null, issued |-> FALSE, outcome |-> "none", status |-> 0,
     cur |-> "none", result |-> "none", recs |-> <<>>, flushes |-> 0,
     internal |-> FALSE, trackFailed |-> FALSE, stage |-> 0, chain |-> 0,
     accepted |-> 0, settled |-> 0, liveAtSettle |-> FALSE]

\* track(record) has returned and "await coreFlush()" begins without the await:
\* the flush is started and control goes on with the value v
AwaitFlush_noAwait(c, pcFlush, v) ==
    [c EXCEPT !.pc = "done", !.cur = v, !.result = v, !.flushes = @ + 1]

\* track(record) has returned and "await coreFlush()" begins: the call is
\* suspended at pcFlush, holding the value v it will go on with
AwaitFlush(c, pcFlush, v) ==
    [c EXCEPT !.pc = pcFlush, !.cur = v, !.flushes = @ + 1]

\* userContext of a trackFetch record: userContext || null
FetchUserContext(c) == c.override

\* the record of the success branch of trackFetch
FetchOkRecord(c, bodyRead) ==
    [branch |-> "fetchOk", statusCode |-> c.status, error |-> Null,
     userContext |-> FetchUserContext(c),
     ambient |-> getCurrentUserContext(c.task), override |-> c.override,
     responseBody |-> bodyRead]

\* a catch branch that records the failure without its error field
FetchErrRecord_noError(c, e) ==
    [branch |-> "fetchErr", statusCode |-> 0, error |-> Null,
     userContext |-> FetchUserContext(c),
     ambient |-> getCurrentUserContext(c.task), override |-> c.override,
     responseBody |-> FALSE]

\* the record of the catch branch of trackFetch
FetchErrRecord(c, e) ==
    [branch |-> "fetchErr", statusCode |-> 0, error |-> FetchMessage(e),
     userContext |-> FetchUserContext(c),
     ambient |-> getCurrentUserContext(c.task), override |-> c.override,
     responseBody |-> FALSE]

\* the catch block of trackFetch, entered with error e: record, flush, rethrow
FetchCatch(c, e, trackThrows) ==
    IF ~c.initialized
    THEN [c EXCEPT !.pc = "done", !.result = e]
    ELSE IF trackThrows
         THEN [c EXCEPT !.pc = "done", !.result = "T", !.trackFailed = TRUE,
                        !.recs = Append(@, FetchErrRecord(c, e))]
         ELSE AwaitFlush([c EXCEPT !.recs = Append(@, FetchErrRecord(c, e)),
                                   !.accepted = @ + 1], "flushErr", e)

\* trackFetch(input, init) up to the await of fetch
TrackFetchStart(t, ov, hdrThrows, bodyThrows) ==
    /\ call.pc = "idle"
    /\ taskPc[t] = "run"
    /\ ensureInitialized
    /\ call' =
         IF hdrThrows
         THEN \* extractRequestHeaders throws before the try block
              [IdleCall EXCEPT !.pc = "done", !.task = t, !.override = ov,
                               !.initialized = ensureInitializedResult,
                               !.internal = TRUE, !.result = "H"]
         ELSE \* getRequestBodyFromInit catches its own failure
              [IdleCall EXCEPT !.pc = "fetching", !.task = t, !.override = ov,
                               !.initialized = ensureInitializedResult,
                               !.internal = bodyThrows, !.issued = TRUE]
    /\ UNCHANGED <<envKey, registerLoaded, explicitKey, reg, wrapped, axInst, axReq, ctxVars, mwVars, fnVars>>

\* a trackFetch that asks again, when the fetch settles, whether tracking is
\* initialized
FetchSettle_asksAgain(out, st, trackThrows) ==
    /\ call.pc = "fetching" /\ call.kind = "fetch"
    /\ LET c == [call EXCEPT !.outcome = out,
                                !.status = IF out = "R" THEN st ELSE 0,
                                !.liveAtSettle = isInitialized \/ client]
       IN  call' =
             IF out = "R"
             THEN IF c.liveAtSettle
                  THEN [c EXCEPT !.pc = "reading"]
                  ELSE [c EXCEPT !.pc = "done", !.result = "R"]
             ELSE IF c.liveAtSettle
                  THEN AwaitFlush([c EXCEPT !.recs = Append(@, FetchErrRecord(c, out)),
                                            !.accepted = @ + 1], "flushErr", out)
                  ELSE [c EXCEPT !.pc = "done", !.result = out]
    /\ UNCHANGED <<procVars, axInst, axReq, ctxVars, mwVars, fnVars>>

\* the awaited fetch settles: a response, or the catch block; whether tracking
\* is initialized by now is kept, the code goes by what it saw at the start
FetchSettle(out, st, trackThrows) ==
    /\ call.pc = "fetching" /\ call.kind = "fetch"
    /\ LET c == [call EXCEPT !.outcome = out,
                                !.status = IF out = "R" THEN st ELSE 0,
                                !.liveAtSettle = isInitialized \/ client]
       IN  call' =
             IF out = "R"
             THEN IF c.initialized
                  THEN [c EXCEPT !.pc = "reading"]
                  ELSE [c EXCEPT !.pc = "done", !.result = "R"]
             ELSE FetchCatch(c, out, trackThrows)
    /\ UNCHANGED <<procVars, axInst, axReq, ctxVars, mwVars, fnVars>>

\* getResponseBodyForTracking settles, then track(record) and the flush starts
BodyRead(cloneThrows, trackThrows, trackThrows2) ==
    /\ call.pc = "reading"
    /\ LET c == [call EXCEPT !.internal = @ \/ cloneThrows]
           rec == FetchOkRecord(c, ~cloneThrows)
       IN  call' =
             IF trackThrows
             THEN FetchCatch([c EXCEPT !.recs = Append(@, rec),
                                       !.trackFailed = TRUE], "T", trackThrows2)
             ELSE AwaitFlush([c EXCEPT !.recs = Append(@, rec),
                                       !.accepted = @ + 1], "flushOk", "R")
    /\ UNCHANGED <<procVars, axInst, axReq, ctxVars, mwVars, fnVars>>

\* the awaited coreFlush() settles
FlushSettle(rejects, trackThrows) ==
    /\ call.pc \in {"flushOk", "flushErr"}
    /\ LET c == [call EXCEPT !.trackFailed = @ \/ rejects, !.settled = @ + 1]
       IN  call' =
             IF c.pc = "flushOk"
             THEN IF rejects
                  THEN FetchCatch(c, "F", trackThrows)
                  ELSE [c EXCEPT !.pc = "done", !.result = "R"]
             ELSE IF rejects
                  THEN [c EXCEPT !.pc = "done", !.result = "F"]
                  ELSE [c EXCEPT !.pc = "done", !.result = c.cur]
    /\ UNCHANGED <<procVars, axInst, axReq, ctxVars, mwVars, fnVars>>

\* the caller has taken the result; the slot serves the next call
Return ==
    /\ call.pc = "done"
    /\ call' = IdleCall
    /\ UNCHANGED <<procVars, axInst, axReq, ctxVars, mwVars, fnVars>>

\* ---------------------------------------------------------------------------
\* addAxiosTracking (src/edge.ts): the interceptor pairs and a request that
\* runs through them
\* ---------------------------------------------------------------------------

\* a pair registered by the application itself: it passes values through
AppInterceptor == "app"
\* the request interceptor of addAxiosTracking: it stamps the start time
StampInterceptor == "stamp"

\* an interceptor manager whose use() drops the handlers registered before
use_replace(handlers, h) == <<h>>

\* interceptors.request.use(...) / interceptors.response.use(...): the pair is
\* appended to the handlers of the manager
use(handlers, h) == Append(handlers, h)

\* the application registers interceptors of its own on the instance, one
\* request pair and one response pair
UseAppInterceptors ==
    /\ call.pc = "idle"
    /\ Len(axReq) < MaxInstalls
    /\ Len(axInst) < MaxInstalls
    /\ axReq' = use(axReq, AppInterceptor)
    /\ axInst' = use(axInst, AppInterceptor)
    /\ UNCHANGED <<procVars, call, ctxVars, mwVars, fnVars>>

\* addAxiosTracking(axiosInstance, options): one more request pair and one more
\* response pair on the instance; the response pair holds options.userContext
AddAxiosTracking(ov) ==
    /\ Len(axInst) < MaxInstalls
    /\ Len(axReq) < MaxInstalls
    /\ ensureInitialized
    /\ axReq' = use(axReq, StampInterceptor)
    /\ axInst' = use(axInst, ov)
    /\ UNCHANGED <<envKey, registerLoaded, explicitKey, reg, wrapped, call, ctxVars, mwVars, fnVars>>

\* userContext of an axios record: options?.userContext || null
AxiosUserContext(j) == axInst[j]

\* the record the pair j hands to track() for the value v it receives
AxiosRecord(c, j, v) ==
    [branch |-> IF v = "R" THEN "axOk" ELSE "axErr",
     statusCode |-> IF v \in {"R", "AE_resp"} THEN c.status ELSE 0,
     error |-> IF v = "R" THEN Null ELSE AxiosMessage(v),
     userContext |-> AxiosUserContext(j),
     ambient |-> getCurrentUserContext(c.task), override |-> axInst[j],
     responseBody |-> v \in {"R", "AE_resp"}]

\* pair j has settled with value v: the next pair runs, or the caller gets v
AxiosStageDone(c, j, v) ==
    IF j = c.chain
    THEN [c EXCEPT !.pc = "done", !.stage = j, !.cur = v, !.result = v]
    ELSE [c EXCEPT !.pc = "axStage", !.stage = j, !.cur = v]

\* a request through the instrumented instance: the request interceptors stamp
\* the start time and the request is sent
AxiosRequest(t) ==
    /\ call.pc = "idle"
    /\ taskPc[t] = "run"
    /\ Len(axInst) >= 1
    /\ call' =
         [IdleCall EXCEPT !.pc = "axSent", !.kind = "axios", !.task = t,
                          !.issued = TRUE, !.chain = Len(axInst),
                          !.initialized = isInitialized \/ client]
    /\ UNCHANGED <<procVars, axInst, axReq, ctxVars, mwVars, fnVars>>

\* the HTTP exchange settles: a response, or an AxiosError with or without one
AxiosSettle(out) ==
    /\ call.pc = "axSent"
    /\ call' =
         [call EXCEPT !.pc = "axStage", !.outcome = out, !.cur = out,
                   !.status = CASE out = "R" -> 200
                                [] out = "AE_resp" -> 500
                                [] OTHER -> 0]
    /\ UNCHANGED <<procVars, axInst, axReq, ctxVars, mwVars, fnVars>>

\* a tracking pair that lets a call pass which an earlier pair has recorded
AxiosIntercept_recordsOnce(normThrows, trackThrows) ==
    /\ call.pc = "axStage"
    /\ LET c == call
           j == c.stage + 1
       IN  call' =
             IF axInst[j] = AppInterceptor \/ c.recs # <<>>
             THEN AxiosStageDone(c, j, c.cur)
             ELSE
             IF normThrows
             THEN AxiosStageDone([c EXCEPT !.internal = TRUE], j, "N")
             ELSE IF trackThrows
                  THEN AxiosStageDone(
                         [c EXCEPT !.recs = Append(@, AxiosRecord(c, j, c.cur)),
                                   !.trackFailed = TRUE], j, "T")
                  ELSE AwaitFlush(
                         [c EXCEPT !.stage = j, !.accepted = @ + 1,
                                   !.recs = Append(@, AxiosRecord(c, j, c.cur))],
                         "axFlush", c.cur)
    /\ UNCHANGED <<procVars, axInst, axReq, ctxVars, mwVars, fnVars>>

\* the response interceptor of the next pair runs up to its await of coreFlush()
AxiosIntercept(normThrows, trackThrows) ==
    /\ call.pc = "axStage"
    /\ LET c == call
           j == c.stage + 1
       IN  call' =
             IF axInst[j] = AppInterceptor
             THEN AxiosStageDone(c, j, c.cur)
             ELSE
             IF normThrows
             THEN \* normalizeAxiosHeaders throws: the async handler rejects
                  AxiosStageDone([c EXCEPT !.internal = TRUE], j, "N")
             ELSE IF trackThrows
                  THEN AxiosStageDone(
                         [c EXCEPT !.recs = Append(@, AxiosRecord(c, j, c.cur)),
                                   !.trackFailed = TRUE], j, "T")
                  ELSE AwaitFlush(
                         [c EXCEPT !.stage = j, !.accepted = @ + 1,
                                   !.recs = Append(@, AxiosRecord(c, j, c.cur))],
                         "axFlush", c.cur)
    /\ UNCHANGED <<procVars, axInst, axReq, ctxVars, mwVars, fnVars>>

\* the awaited coreFlush() of an interceptor settles: return response, or
\* Promise.reject(error); a rejected flush rejects the interceptor
AxiosFlushSettle(rejects) ==
    /\ call.pc = "axFlush"
    /\ LET c == [call EXCEPT !.trackFailed = @ \/ rejects, !.settled = @ + 1]
       IN  call' =
             AxiosStageDone(c, c.stage, IF rejects THEN "F" ELSE c.cur)
    /\ UNCHANGED <<procVars, axInst, axReq, ctxVars, mwVars, fnVars>>

\* ---------------------------------------------------------------------------
\* UserContext values and the JSON header codec (src/middleware.ts)
\* ---------------------------------------------------------------------------

\* a metadata value: a string, or an opaque value JSON cannot carry as it is
Val(t, v) == [t |-> t, v |-> v]

\* strings holding a character above U+00FF
WideStrings == {"name-beyond-latin1"}

UserContextRec(userId, userType, context, metadata) ==
    [userId |-> userId, userType |-> userType, context |-> context,
     metadata |-> metadata]

\* the UserContext objects a custom resolver returns, by the key the wrapper
\* invocation keeps
UserContextOf(k) ==
    CASE k = "u1" ->
           UserContextRec("u1", "absent", "authenticated", <<>>)
      [] k = "u2" ->
           UserContextRec("u2", "User", "api",
               << <<"authProvider", Val("string", "clerk")>> >>)
      [] k = "uOpaque" ->
           UserContextRec("u3", "User", "authenticated",
               << <<"lastLogin", Val("date", "2024-01-01T00:00:00.000Z")>>,
                  <<"orgId", Val("undefined", "")>> >>)
      [] k = "uWide" ->
           UserContextRec("u4", "absent", "authenticated",
               << <<"name", Val("string", "name-beyond-latin1")>> >>)

ResolvedKeys == UserVals \cup {"uOpaque", "uWide"}
ResolverErrors == {"X", "X2"}

\* what JSON.stringify makes of one property value: a Date becomes its ISO
\* string, undefined makes the property disappear
JSONValue(val) ==
    CASE val.t = "date" -> <<Val("string", val.v)>>
      [] val.t = "undefined" -> <<>>
      [] OTHER -> <<val>>

RECURSIVE JSONProps(_)
JSONProps(props) ==
    IF props = <<>> THEN <<>>
    ELSE LET p == Head(props)
             jv == JSONValue(p[2])
         IN  (IF jv = <<>> THEN <<>> ELSE << <<p[1], jv[1]>> >>)
             \o JSONProps(Tail(props))

\* JSON.stringify(userContext): the text of the document
JSONstringify(u) ==
    [kind |-> "json",
     doc |-> <<[userId |-> u.userId, userType |-> u.userType,
                context |-> u.context, metadata |-> JSONProps(u.metadata)]>>]

\* header texts that did not come from JSON.stringify
EmptyText == [kind |-> "empty", doc |-> <<>>]
MalformedText == [kind |-> "malformed", doc |-> <<>>]
NullText == [kind |-> "json", doc |-> <<>>]

\* JSON.parse(text): the document (none for the text "null"), or it throws
JSONparse(text) ==
    IF text.kind = "json"
    THEN [threw |-> FALSE, value |-> text.doc]
    ELSE [threw |-> TRUE, value |-> <<>>]

\* can the text be a header value (a ByteString)? Headers.set throws a
\* TypeError otherwise
IsByteString(text) ==
    \A i \in DOMAIN text.doc :
        LET d == text.doc[i]
        IN  /\ d.userId \notin WideStrings
            /\ \A j \in DOMAIN d.metadata : d.metadata[j][2].v \notin WideStrings

\* getUserContextFromRequest without its try/catch
getUserContextFromRequest_noCatch(hdr) ==
    IF hdr = <<>> \/ hdr[1].kind = "empty"
    THEN [threw |-> FALSE, value |-> <<>>]
    ELSE JSONparse(hdr[1])

\* getUserContextFromRequest(request), hdr being the x-outboundiq-user-context
\* header of the request (<<>> when it has none)
getUserContextFromRequest(hdr) ==
    IF hdr = <<>> \/ hdr[1].kind = "empty"
    THEN [threw |-> FALSE, value |-> <<>>]
    ELSE LET r == JSONparse(hdr[1])
         IN  IF r.threw THEN [threw |-> FALSE, value |-> <<>>] ELSE r

\* ---------------------------------------------------------------------------
\* withOutboundIQ (src/middleware.ts): one invocation of the wrapper it returns
\* ---------------------------------------------------------------------------

\* request paths, as sequences of characters
PathDash == <<"/", "d">>
PathApi == <<"/", "a", "p", "i", "/", "d">>
PathHealth == <<"/", "h">>
Paths == {PathDash, PathApi, PathHealth}

\* excludePatterns entries: a string, or a RegExp ^text (with the g flag it
\* keeps a lastIndex between calls)
StrPattern(text) == [kind |-> "string", text |-> text, global |-> FALSE, lastIndex |-> 0]
RegExpPattern(text, g, li) == [kind |-> "regexp", text |-> text, global |-> g, lastIndex |-> li]
PatternLists ==
    {<<>>,
     <<StrPattern(<<"/", "h">>)>>,
     <<StrPattern(<<"a", "p", "i">>), StrPattern(<<"/", "h">>)>>,
     <<RegExpPattern(<<"/", "a", "p", "i">>, FALSE, 0)>>,
     <<RegExpPattern(<<"/", "a", "p", "i">>, TRUE, 4)>>,
     <<RegExpPattern(<<"/", "h">>, TRUE, 0), StrPattern(<<"/", "d">>)>>}

\* url.includes(pattern)
Includes(url, pattern) ==
    \E i \in 1..Len(url) :
        /\ i + Len(pattern) - 1 <= Len(url)
        /\ SubSeq(url, i, i + Len(pattern) - 1) = pattern

\* url.startsWith(prefix)
StartsWith(url, prefix) ==
    /\ Len(prefix) <= Len(url)
    /\ SubSeq(url, 1, Len(prefix)) = prefix

\* pattern.test(url) for the RegExp ^text: a global RegExp searches from its
\* lastIndex, where ^ cannot match unless lastIndex is 0
RegExpTest(p, url) ==
    /\ StartsWith(url, p.text)
    /\ (p.global => p.lastIndex = 0)

\* an exclusion loop that knows string patterns only
Excluded_stringsOnly(url, patterns) ==
    \E i \in 1..Len(patterns) :
        patterns[i].kind = "string" /\ Includes(url, patterns[i].text)

\* the exclusion loop: some pattern matches the path
Excluded(url, patterns) ==
    \E i \in 1..Len(patterns) :
        \/ patterns[i].kind = "string" /\ Includes(url, patterns[i].text)
        \/ patterns[i].kind = "regexp" /\ RegExpTest(patterns[i], url)

IdleMw ==
    [pc |-> "idle", task |-> 1, path |-> PathDash, patterns |-> <<>>,
     bypass |-> FALSE, resolved |-> FALSE,
     user |-> Null, seenMade |-> FALSE, seenUser |-> Null,
     result |-> "none", header |-> <<>>, handlerCalls |-> 0,
     thrown |-> "none", ownHdr |-> <<>>, headerSet |-> FALSE,
     handlerReturned |-> FALSE, extractedMade |-> FALSE, extracted |-> <<>>]

\* JSON.stringify(userContext), as the header value
ContextHeader(u) == JSONstringify(UserContextOf(u))

\* outboundIQMiddleware(request) up to its first await: the exclusion loop
\* returns middleware(request) directly, otherwise getUserContext is awaited
MwEnter(t, url, patterns) ==
    /\ mw.pc = "idle"
    /\ taskPc[t] = "run"
    /\ mw' = IF Excluded(url, patterns)
             THEN [IdleMw EXCEPT !.pc = "handler", !.task = t, !.path = url,
                                 !.patterns = patterns, !.bypass = TRUE,
                                 !.handlerCalls = 1]
             ELSE [IdleMw EXCEPT !.pc = "resolving", !.task = t, !.path = url,
                                 !.patterns = patterns]
    /\ UNCHANGED <<ctxVars, edgeVars, fnVars>>

\* a wrapper that swallows what the resolver threw and goes on without a context
ResolverRejected_swallowed(m, x) ==
    [m EXCEPT !.pc = "handler", !.thrown = x, !.user = Null,
              !.handlerCalls = @ + 1]

\* the awaited getUserContext(request) rejects with x: nothing catches it, the
\* wrapper rejects with x
ResolverRejected(m, x) ==
    [m EXCEPT !.pc = "done", !.thrown = x, !.result = x]

\* the awaited getUserContext(request) settles: a UserContext, null, or it
\* throws; then the original middleware is called
MwResolve(out) ==
    /\ mw.pc = "resolving"
    /\ mw' = IF out \in ResolverErrors
             THEN ResolverRejected(mw, out)
             ELSE [mw EXCEPT !.pc = "handler", !.resolved = TRUE, !.user = out,
                             !.handlerCalls = @ + 1]
    /\ UNCHANGED <<ctxVars, edgeVars, fnVars>>

\* the inner handler calls getCurrentUserContext() while it runs
MwHandlerObserve ==
    /\ mw.pc = "handler"
    /\ mw' = [mw EXCEPT !.seenMade = TRUE,
                        !.seenUser = getCurrentUserContext(mw.task)]
    /\ UNCHANGED <<ctxVars, edgeVars, fnVars>>

\* if (userContext) response.headers.set(USER_CONTEXT_HEADER,
\* JSON.stringify(userContext)); return response
SetContextHeader(m) ==
    IF ~IsByteString(ContextHeader(m.user))
    THEN [m EXCEPT !.pc = "done", !.result = "TypeError"]
    ELSE [m EXCEPT !.pc = "done", !.result = "response", !.headerSet = TRUE,
                   !.header = <<ContextHeader(m.user)>>]

\* the inner handler settles: its response (carrying the header value ownHdr, or
\* none) gets the context header when a context was resolved; or it throws
MwHandlerSettle(out, ownHdr) ==
    /\ mw.pc = "handler"
    /\ mw' = IF out = "Y"
             THEN [mw EXCEPT !.pc = "done", !.result = "Y"]
             ELSE LET m == [mw EXCEPT !.handlerReturned = TRUE,
                                      !.ownHdr = ownHdr, !.header = ownHdr]
                  IN  IF ~m.bypass /\ m.user # Null
                      THEN SetContextHeader(m)
                      ELSE [m EXCEPT !.pc = "done", !.result = "response"]
    /\ UNCHANGED <<ctxVars, edgeVars, fnVars>>

\* a downstream route receives a request carrying the context header of the
\* wrapper's response and calls getUserContextFromRequest on it
MwDownstream ==
    /\ mw.pc = "done"
    /\ mw.result = "response"
    /\ ~mw.extractedMade
    /\ mw' = [mw EXCEPT !.extractedMade = TRUE,
                        !.extracted = getUserContextFromRequest(mw.header).value]
    /\ UNCHANGED <<ctxVars, edgeVars, fnVars>>

\* the caller has taken the response; the next request may come
MwReturn ==
    /\ mw.pc = "done"
    /\ mw' = IdleMw
    /\ UNCHANGED <<ctxVars, edgeVars, fnVars>>

\* lineage 1 runs inside runWithContext on a context holding user "u1",
\* lineage 2 runs outside every scope
ScopedInit ==
    /\ ctxAlloc = {1}
    /\ ctxUser = [c \in Ctxs |-> IF c = 1 THEN "u1" ELSE Null]
    /\ taskPc = [t \in Tasks |-> IF t <= 2 THEN "run" ELSE "free"]
    /\ store = [t \in Tasks |-> IF t = 1 THEN 1 ELSE Undefined]
    /\ scope = [t \in Tasks |-> IF t = 1 THEN 1 ELSE Undefined]
    /\ root = [t \in Tasks |-> t]
    /\ own = [t \in Tasks |-> IF t = 1 THEN "u1" ELSE Null]
    /\ seen = NoSeen

\* ---------------------------------------------------------------------------
\* The edge specification: a process with or without OUTBOUNDIQ_KEY
\* ---------------------------------------------------------------------------
EdgeIdle ==
    /\ isInitialized = FALSE
    /\ client = FALSE
    /\ registerLoaded = FALSE
    /\ explicitKey = FALSE
    /\ initLog = <<>>
    /\ reg = IdleReg
    /\ wrapped = IdleWrapped
    /\ axInst = <<>>
    /\ axReq = <<>>
    /\ call = IdleCall

EdgeInit ==
    /\ envKey \in BOOLEAN
    /\ EdgeIdle
    /\ ScopedInit
    /\ mw = IdleMw
    /\ fn = IdleFn

EdgeNext ==
    \/ \E cfgKey \in CfgKeys : InitEdge(cfgKey)
    \/ RegisterLoad
    \/ \E t \in Tasks, ov \in UserVals, h \in BOOLEAN, b \in BOOLEAN :
         TrackFetchStart(t, ov, h, b)
    \/ \E out \in {"R"} \cup FetchErrors, st \in Statuses, tt \in BOOLEAN :
         FetchSettle(out, st, tt)
    \/ \E ct \in BOOLEAN, tt \in BOOLEAN, tt2 \in BOOLEAN :
         BodyRead(ct, tt, tt2)
    \/ \E rj \in BOOLEAN, tt \in BOOLEAN : FlushSettle(rj, tt)
    \/ Return
    \/ \E ov \in UserVals : AddAxiosTracking(ov)
    \/ UseAppInterceptors
    \/ \E t \in Tasks : AxiosRequest(t)
    \/ \E out \in {"R"} \cup AxiosErrors : AxiosSettle(out)
    \/ \E nt \in BOOLEAN, tt \in BOOLEAN : AxiosIntercept(nt, tt)
    \/ \E rj \in BOOLEAN : AxiosFlushSettle(rj)

SpecEdge == EdgeInit /\ [][EdgeNext]_vars

\* the records the call in flight has handed to track()
Recs == {call.recs[i] : i \in DOMAIN call.recs}

\* C4: every record handed to track() has userContext equal to the explicit
\* override when one was given and otherwise to the ambient
\* getCurrentUserContext() of the calling scope.
C4_UserContextPopulated ==
    \A r \in Recs :
        r.userContext = IF r.override # Null THEN r.override ELSE r.ambient

\* C5: when tracking is initialized and the underlying fetch throws E, a
\* record with statusCode 0 and a non-empty error is handed to track() and the
\* caller of trackFetch observes exactly E, whatever track() and flush() do.
C5_FailureRecordedAndRethrown ==
    (call.pc = "done" /\ call.kind = "fetch" /\ call.initialized
        /\ call.outcome \in FetchErrors)
    => /\ call.result = call.outcome
       /\ \E r \in Recs : r.statusCode = 0 /\ r.error \notin {Null, ""}

\* C6: when the underlying call resolves with response R, the caller of
\* trackFetch (or of the axios request) gets R, even when track() throws or
\* flush() rejects.
C6_SuccessUnaltered ==
    (call.pc = "done" /\ call.outcome = "R" /\ ~call.internal)
    => call.result = "R"

C8_InitAtMostOnce ==
    \A i \in DOMAIN initLog :
        i > 1 => initLog[i].by \notin {"ensureInitialized", "initEdge"}

\* C9: with no API key in the environment and none passed explicitly, init is
\* never called, no call site calls track() or flush(), and the underlying
\* call's outcome is delivered.
C9_NoKeyNoTracking ==
    (~envKey /\ ~explicitKey)
    => /\ initLog = <<>>
       /\ call.recs = <<>>
       /\ call.flushes = 0
       /\ (call.pc = "done" /\ ~call.internal) => call.result = call.outcome

\* C10: when header extraction, body capture, header normalization or response
\* cloning throws (and tracking itself does not fail), the underlying call is
\* still issued and its real outcome is what the caller gets.
C10_InternalFailureNonFatal ==
    (call.pc = "done" /\ call.internal /\ ~call.trackFailed)
    => /\ call.issued
       /\ call.result = call.outcome

\* C19: addAxiosTracking only adds interceptors: no step removes or changes a
\* pair registered before it on either side, and the step that registers the
\* tracking request pair adds exactly that one request pair and exactly one
\* response pair.
C19_OnlyAddsInterceptors ==
    [][ /\ Len(axReq') >= Len(axReq)
        /\ SubSeq(axReq', 1, Len(axReq)) = axReq
        /\ Len(axInst') >= Len(axInst)
        /\ SubSeq(axInst', 1, Len(axInst)) = axInst
        /\ (axReq' # axReq /\ axReq'[Len(axReq')] = StampInterceptor)
              => /\ Len(axReq') = Len(axReq) + 1
                 /\ Len(axInst') = Len(axInst) + 1
                 /\ axInst'[Len(axInst')] \in UserVals ]_vars

\* tracking has been added to an instance that already had interceptors of the
\* application on both sides
C19_Witness ==
    /\ Len(axReq) = 2 /\ axReq[1] = AppInterceptor /\ axReq[2] = StampInterceptor
    /\ Len(axInst) = 2 /\ axInst[1] = AppInterceptor /\ axInst[2] \in UserVals

\* C11: every record track() has accepted is followed at once by a flush, and
\* control returns to the caller of a call tracked while initialized only after
\* every flush started for its records has settled; when the underlying call
\* settled and no track() threw, at least one record was submitted.
C11_FlushBeforeReturn ==
    /\ call.flushes = call.accepted
    /\ (call.pc = "done" /\ call.initialized) => call.settled = call.flushes
    /\ (call.pc = "done" /\ call.initialized /\ call.outcome # "none"
           /\ Len(call.recs) = call.accepted /\ call.result # "N"
           /\ (call.kind = "axios" =>
                 \E j \in 1..call.chain : axInst[j] # AppInterceptor))
       => call.accepted >= 1

\* a call tracked while initialized has returned after its flush settled, for
\* trackFetch and for an axios request
C11_Witness ==
    /\ call.pc = "done" /\ call.initialized /\ call.kind = "axios"
    /\ call.accepted = 2 /\ call.settled = 2
    /\ call.result = call.outcome

\* C27: each trackFetch invocation made while tracking is initialized hands
\* exactly one record to track(), on the success path and on the failure path
\* alike and whatever track() and flush() do; no outbound call is recorded
\* twice, or both as a success and as a failure.
C27_ExactlyOneRecord ==
    (call.kind = "fetch" /\ call.initialized /\ call.issued)
    => /\ Len(call.recs) <= 1
       /\ (call.pc = "done" /\ call.outcome # "none") => Len(call.recs) = 1
       /\ ~(\E r1 \in Recs, r2 \in Recs :
               r1.branch = "fetchOk" /\ r2.branch = "fetchErr")

\* C28 as stated: a trackFetch call is recorded whenever tracking is
\* initialized at the moment its fetch settles, also when ensureInitialized
\* returned false at its start and initEdge with an explicit key succeeded
\* while the fetch was in flight.
C28_RecordedWhenLiveAtSettle ==
    (call.kind = "fetch" /\ call.pc = "done" /\ call.outcome # "none"
        /\ call.liveAtSettle)
    => /\ Len(call.recs) >= 1
       /\ ~call.trackFailed => call.flushes >= 1

\* C28 as amended: a trackFetch call is recorded whenever ensureInitialized
\* returned true at its start; when it returned false the call is neither
\* handed to track() nor flushed, even if initEdge with an explicit key
\* succeeded while the fetch was in flight.
C28_RecordedWhenLiveAtStart ==
    call.kind = "fetch"
    => /\ ~call.initialized => call.recs = <<>> /\ call.flushes = 0
       /\ (call.initialized /\ call.pc = "done" /\ call.outcome # "none")
             => /\ Len(call.recs) >= 1
                /\ ~call.trackFailed => call.flushes >= 1

\* a call started without a key has settled after initEdge succeeded with an
\* explicit key, and has returned the response without a record
C28_Witness ==
    /\ call.kind = "fetch" /\ call.pc = "done" /\ call.outcome = "R"
    /\ ~call.initialized /\ call.liveAtSettle /\ explicitKey /\ ~envKey
    /\ call.recs = <<>> /\ call.flushes = 0 /\ call.result = "R"

\* the tracking pairs the request in flight runs through: one for each call of
\* addAxiosTracking made on the instance before the request
TrackingPairs ==
    Cardinality({j \in 1..call.chain : axInst[j] # AppInterceptor})

\* C29 as stated: however often addAxiosTracking was called on the instance,
\* each HTTP call made through it hands exactly one record to track() and
\* starts one flush.
C29_AddTrackingIdempotent ==
    (call.kind = "axios" /\ call.pc = "done" /\ TrackingPairs >= 1
        /\ ~call.internal)
    => /\ Len(call.recs) = 1
       /\ ~call.trackFailed => call.flushes = 1

\* C29 as amended: every call of addAxiosTracking adds one more tracking pair,
\* and an HTTP call is handed to track() once by each pair it runs through
\* (by each pair whose header normalization did not throw), a flush following
\* each record track() accepted.
C29_OneRecordPerInstall ==
    (call.kind = "axios" /\ call.pc = "done")
    => /\ Len(call.recs) <= TrackingPairs
       /\ ~call.internal => Len(call.recs) = TrackingPairs
       /\ call.flushes <= Len(call.recs)
       /\ ~call.trackFailed => call.flushes = Len(call.recs)

\* an HTTP call through an instance on which addAxiosTracking was called twice
\* has been recorded twice and flushed twice
C29_Witness ==
    /\ call.kind = "axios" /\ call.pc = "done" /\ TrackingPairs = 2
    /\ Len(call.recs) = 2 /\ call.flushes = 2
    /\ call.recs[1].branch = "axOk" /\ call.recs[2].branch = "axOk"
    /\ call.result = "R"

MwInit ==
    /\ ScopedInit
    /\ envKey = TRUE
    /\ EdgeIdle
    /\ mw = IdleMw
    /\ fn = IdleFn

\* the values the inner handler may have put under the context header name
OwnHeaders == {<<>>, <<JSONstringify(UserContextOf("u1"))>>, <<MalformedText>>}

MwNext ==
    \/ \E t \in Tasks, url \in Paths, patterns \in PatternLists :
         MwEnter(t, url, patterns)
    \/ \E out \in ResolvedKeys \cup ResolverErrors : MwResolve(out)
    \/ MwHandlerObserve
    \/ \E out \in {"response", "Y"}, ownHdr \in OwnHeaders :
         MwHandlerSettle(out, ownHdr)
    \/ MwDownstream
    \/ MwReturn

SpecMw == MwInit /\ [][MwNext]_vars

\* C3: for a request that is not excluded, getCurrentUserContext() called while
\* the inner handler runs returns the UserContext the resolver returned for
\* that request.
C3_StorePropagation ==
    (mw.seenMade /\ ~mw.bypass /\ mw.user # Null) => mw.seenUser = mw.user

\* C14: round trip. When the resolver returned UserContext u and the wrapper
\* returned a response, getUserContextFromRequest applied to a request carrying
\* that response's context header returns a value deep-equal to u.
C14_HeaderRoundTrip ==
    (mw.extractedMade /\ ~mw.bypass /\ mw.user # Null)
    => mw.extracted = <<UserContextOf(mw.user)>>

\* C16: when the resolver throws or rejects with X for a request that is not
\* excluded, the wrapper rejects with that same X, and the inner handler is
\* not run.
C16_ResolverErrorPropagates ==
    mw.thrown # "none"
    => /\ mw.pc = "done"
       /\ mw.result = mw.thrown
       /\ mw.handlerCalls = 0

\* the resolver threw for a request that is not excluded although the wrapper
\* has exclusion patterns, and the wrapper rejected
C16_Witness ==
    /\ mw.thrown = "X2" /\ mw.result = "X2" /\ mw.pc = "done"
    /\ mw.patterns # <<>> /\ ~mw.bypass

\* the path matches an entry of excludePatterns: a string it contains, or a
\* RegExp that tests true
PathMatches(url, patterns) ==
    \E i \in DOMAIN patterns :
        IF patterns[i].kind = "string"
        THEN \E k \in 0..(Len(url) - Len(patterns[i].text)) :
                 \A j \in 1..Len(patterns[i].text) :
                     url[k + j] = patterns[i].text[j]
        ELSE RegExpTest(patterns[i], url)

\* C17: for a request whose path matches an entry of excludePatterns the
\* resolver is never invoked, the inner handler is invoked exactly once, and
\* its response is returned with the context header as the handler left it.
C17_ExclusionBypass ==
    (mw.pc # "idle" /\ PathMatches(mw.path, mw.patterns))
    => /\ mw.bypass
       /\ ~mw.resolved /\ mw.thrown = "none"
       /\ mw.handlerCalls = 1
       /\ ~mw.headerSet
       /\ (mw.pc = "done" /\ mw.handlerReturned)
             => mw.result = "response" /\ mw.header = mw.ownHdr

\* a request excluded by a RegExp entry has been answered by the inner handler,
\* whose own context header is on the response
C17_Witness ==
    /\ mw.pc = "done" /\ mw.bypass /\ mw.result = "response"
    /\ \E i \in DOMAIN mw.patterns :
          mw.patterns[i].kind = "regexp" /\ RegExpTest(mw.patterns[i], mw.path)
    /\ mw.header = mw.ownHdr /\ mw.ownHdr # <<>>

\* C18: for a request that is not excluded, once the inner handler has returned
\* a response: when the resolver returned a non-null u the wrapper returns the
\* response with the context header equal to the JSON serialization of u,
\* whatever the handler had put there; when the resolver returned null the
\* response is returned with its headers as the handler left them.
C18_HeaderInjected ==
    (mw.pc = "done" /\ mw.handlerReturned /\ ~mw.bypass)
    => /\ mw.result = "response"
       /\ mw.header = IF mw.user # Null
                      THEN <<JSONstringify(UserContextOf(mw.user))>>
                      ELSE mw.ownHdr

\* ---------------------------------------------------------------------------
\* The built-in resolvers (src/middleware.ts, src/integrations/clerk.ts,
\* src/integrations/next-auth.ts)
\* ---------------------------------------------------------------------------

\* a header or cookie of a request: <<>> when absent, <<value>> when present
Absent == <<>>
HeaderValues == {Absent, <<"">>, <<"42">>}
CookieValues == {Absent, <<"">>, <<"tok">>}

\* the requests the resolvers are applied to
Requests ==
    [xUserId : HeaderValues,
     xAuthenticatedUser : {Absent, <<"">>, <<"bob">>},
     authorization : {Absent, <<"Bearer t">>},
     xClerkUserId : {Absent, <<"clerk_1">>},
     nextAuthToken : CookieValues,
     secureNextAuthToken : {Absent, <<"tok">>},
     session : {Absent, <<"tok">>},
     clerkDbJwt : {Absent, <<"tok">>},
     path : Paths,
     method : {"GET", "POST"}]

\* headers.get(name) / cookies.get(name)?.value: the value, or null
Get(h) == IF h = Absent THEN Null ELSE h[1]
\* headers.has(name) / cookies.has(name)
Has(h) == h # Absent
\* JavaScript truthiness of a string-or-null value
Truthy(s) == s \notin {Null, ""}
\* a || b for string-or-null values
Or(a, b) == IF Truthy(a) THEN a ELSE b

\* a default resolver that never classifies a request as an API call
defaultGetUserContext_noApi(request) ==
    LET userId == Or(Or(Get(request.xUserId), Get(request.xAuthenticatedUser)), Null)
        signal == \/ Truthy(userId)
                  \/ Has(request.nextAuthToken) \/ Has(request.secureNextAuthToken)
                  \/ Has(request.session) \/ Has(request.clerkDbJwt)
                  \/ Has(request.authorization)
    IN  UserContextRec(IF Truthy(userId) THEN userId ELSE Null, "absent",
                       IF signal THEN "authenticated" ELSE "anonymous",
                       << <<"path", Val("string", request.path)>>,
                          <<"method", Val("string", request.method)>> >>)

\* defaultGetUserContext(request)
defaultGetUserContext(request) ==
    LET userId == Or(Or(Get(request.xUserId), Get(request.xAuthenticatedUser)), Null)
        hasNextAuthSession ==
            Has(request.nextAuthToken) \/ Has(request.secureNextAuthToken)
        hasClerkSession == Has(request.session) \/ Has(request.clerkDbJwt)
        hasAuthHeader == Has(request.authorization)
        signalled == Truthy(userId) \/ hasNextAuthSession \/ hasClerkSession
                        \/ hasAuthHeader
        isApiRoute == StartsWith(request.path, <<"/", "a", "p", "i">>)
        context == IF isApiRoute /\ hasAuthHeader THEN "api"
                   ELSE IF signalled THEN "authenticated" ELSE "anonymous"
    IN  UserContextRec(IF Truthy(userId) THEN userId ELSE Null, "absent", context,
                       << <<"path", Val("string", request.path)>>,
                          <<"method", Val("string", request.method)>> >>)

\* a Clerk resolver that reports the user id header without a session
createClerkResolver_idWithoutSession(request) ==
    IF ~(Has(request.session) \/ Has(request.clerkDbJwt))
    THEN UserContextRec(Or(Get(request.xClerkUserId), Null), "absent",
                        "anonymous", <<>>)
    ELSE UserContextRec(Or(Get(request.xClerkUserId), Null), "absent",
                        "authenticated",
                        << <<"authProvider", Val("string", "clerk")>> >>)

\* the resolver createClerkResolver() returns, applied to a request
createClerkResolver(request) ==
    LET hasSession == Has(request.session) \/ Has(request.clerkDbJwt)
    IN  IF ~hasSession
        THEN UserContextRec(Null, "absent", "anonymous", <<>>)
        ELSE UserContextRec(Or(Get(request.xClerkUserId), Null), "absent",
                            "authenticated",
                            << <<"authProvider", Val("string", "clerk")>> >>)

\* the resolver createNextAuthResolver() returns, applied to a request
createNextAuthResolver(request) ==
    LET sessionToken ==
            Or(Get(request.nextAuthToken), Get(request.secureNextAuthToken))
    IN  IF ~Truthy(sessionToken)
        THEN UserContextRec(Null, "absent", "anonymous", <<>>)
        ELSE UserContextRec(Null, "absent", "authenticated",
                            << <<"authProvider", Val("string", "next-auth")>> >>)

\* an optional or nullable property as a metadata value
OptVal(o) ==
    IF o = Absent THEN Val("undefined", "")
    ELSE IF o[1] = Null THEN Val("null", "") ELSE Val("string", o[1])

\* the Clerk auth objects getUserContextFromClerk is applied to
ClerkAuths ==
    [userId : {Null, "", "user_1"},
     orgId : {Absent, <<Null>>, <<"org_1">>},
     sessionId : {Absent, <<Null>>, <<"sess_1">>}]

\* getUserContextFromClerk(clerkAuth)
getUserContextFromClerk(clerkAuth) ==
    IF ~Truthy(clerkAuth.userId)
    THEN UserContextRec(Null, "absent", "anonymous", <<>>)
    ELSE UserContextRec(clerkAuth.userId, "User", "authenticated",
             << <<"authProvider", Val("string", "clerk")>>,
                <<"orgId", OptVal(clerkAuth.orgId)>>,
                <<"sessionId", OptVal(clerkAuth.sessionId)>> >>)

\* the NextAuth sessions getUserContextFromSession is applied to: null, a
\* session without user, or one whose user has optional id, email and name
SessionUsers ==
    [id : {Absent, <<"">>, <<"7">>},
     email : {Absent, <<"">>, <<"a@b.c">>},
     name : {Absent, <<"Ann">>}]
Sessions ==
    {[present |-> FALSE, user |-> Absent], [present |-> TRUE, user |-> Absent]}
    \cup {[present |-> TRUE, user |-> <<u>>] : u \in SessionUsers}

\* getUserContextFromSession(session)
getUserContextFromSession(session) ==
    IF ~session.present \/ session.user = Absent
    THEN UserContextRec(Null, "absent", "anonymous", <<>>)
    ELSE LET user == session.user[1]
         IN  UserContextRec(Or(Or(Get(user.id), Get(user.email)), Null),
                 "User", "authenticated",
                 << <<"authProvider", Val("string", "next-auth")>>,
                    <<"email", OptVal(user.email)>>,
                    <<"name", OptVal(user.name)>> >>)

\* ---------------------------------------------------------------------------
\* Body capture of trackFetch (src/edge.ts)
\* ---------------------------------------------------------------------------
BODY_MAX_LENGTH == 10000

\* "...[truncated]"
TruncatedSuffix ==
    <<".", ".", ".", "[", "t", "r", "u", "n", "c", "a", "t", "e", "d", "]">>

\* a string of n characters
Text(n) == [i \in 1..n |-> IF i % 3 = 0 THEN "a" ELSE IF i % 3 = 1 THEN "b" ELSE "c"]

\* the lengths of the body strings tried, around the maximum
BodyLengths ==
    {0, 1, BODY_MAX_LENGTH - 1, BODY_MAX_LENGTH, BODY_MAX_LENGTH + 1,
     BODY_MAX_LENGTH + Len(TruncatedSuffix), BODY_MAX_LENGTH + Len(TruncatedSuffix) + 1,
     2 * BODY_MAX_LENGTH + 3}

\* the body strings tried; one already ends with the suffix at the maximum
BodyTexts ==
    {Text(n) : n \in BodyLengths} \cup {Text(BODY_MAX_LENGTH) \o TruncatedSuffix}

\* init.body of a request: none, a string, a URLSearchParams (text is what its
\* toString() gives), a FormData, an ArrayBuffer or Uint8Array (text is its
\* bytes), another body type (a Blob, a stream), or a body whose inspection
\* throws
RequestBodies ==
    {[kind |-> "none", text |-> <<>>], [kind |-> "throws", text |-> <<>>]}
    \cup {[kind |-> k, text |-> Text(n)] :
              k \in {"FormData", "ArrayBuffer", "Uint8Array", "other"}, n \in {0, 8, 12}}
    \cup {[kind |-> k, text |-> s] : k \in {"string", "URLSearchParams"}, s \in BodyTexts}

\* the response bodies: clone().text() gives text, or it throws
ResponseBodies ==
    {[kind |-> "throws", text |-> <<>>]}
    \cup {[kind |-> "text", text |-> s] : s \in BodyTexts}

\* s.length > BODY_MAX_LENGTH ? s.substring(0, BODY_MAX_LENGTH - 1) + suffix : s
Truncate_offByOne(s) ==
    IF Len(s) > BODY_MAX_LENGTH
    THEN SubSeq(s, 1, BODY_MAX_LENGTH - 1) \o TruncatedSuffix
    ELSE s

\* s.length > BODY_MAX_LENGTH
\*   ? s.substring(0, BODY_MAX_LENGTH) + '...[truncated]' : s
Truncate(s) ==
    IF Len(s) > BODY_MAX_LENGTH
    THEN SubSeq(s, 1, BODY_MAX_LENGTH) \o TruncatedSuffix
    ELSE s

\* the decimal digits of a natural number, as a template literal prints it
RECURSIVE DecimalText(_)
DecimalText(n) ==
    LET digit == <<"0", "1", "2", "3", "4", "5", "6", "7", "8", "9">>[(n % 10) + 1]
    IN  IF n < 10 THEN <<digit>> ELSE Append(DecimalText(n \div 10), digit)

\* a capture without the FormData branch: multipart data falls to the last line
getRequestBodyFromInit_noFormData(body) ==
    CASE body.kind = "none" -> <<>>
      [] body.kind = "string" ->
           IF body.text = <<>> THEN <<>> ELSE <<Truncate(body.text)>>
      [] body.kind = "URLSearchParams" -> <<Truncate(body.text)>>
      [] body.kind \in {"ArrayBuffer", "Uint8Array"} ->
           << <<"[", "B", "i", "n", "a", "r", "y", ":", " ">>
              \o DecimalText(Len(body.text))
              \o <<" ", "b", "y", "t", "e", "s", "]">> >>
      [] body.kind = "throws" -> <<>>
      [] OTHER -> << <<"[", "B", "o", "d", "y", "]">> >>

\* getRequestBodyFromInit(init): <<>> for null, <<string>> otherwise
getRequestBodyFromInit(body) ==
    CASE body.kind = "none" -> <<>>
      [] body.kind = "string" ->
           IF body.text = <<>> THEN <<>> ELSE <<Truncate(body.text)>>
      [] body.kind = "FormData" ->
           << <<"[", "F", "o", "r", "m", "D", "a", "t", "a", "]">> >>
      [] body.kind = "URLSearchParams" -> <<Truncate(body.text)>>
      [] body.kind \in {"ArrayBuffer", "Uint8Array"} ->
           << <<"[", "B", "i", "n", "a", "r", "y", ":", " ">>
              \o DecimalText(Len(body.text))
              \o <<" ", "b", "y", "t", "e", "s", "]">> >>
      [] body.kind = "throws" -> <<>>
      [] OTHER -> << <<"[", "B", "o", "d", "y", "]">> >>

\* getResponseBodyForTracking(response)
getResponseBodyForTracking(body) ==
    IF body.kind = "throws" THEN <<>> ELSE <<Truncate(body.text)>>

\* safeStringify(value, maxLength) of the tracking client, for a string or null
safeStringify(value, maxLength) ==
    IF value = <<>> THEN <<>>
    ELSE IF Len(value[1]) > maxLength
         THEN <<SubSeq(value[1], 1, maxLength) \o TruncatedSuffix>>
         ELSE value

\* ---------------------------------------------------------------------------
\* Body capture in the published build (dist/index.js), whose maximum differs
\* ---------------------------------------------------------------------------
BODY_MAX_LENGTH_dist == 60000

\* the lengths of the body strings tried against the published build
DistBodyLengths == {BODY_MAX_LENGTH_dist, BODY_MAX_LENGTH_dist + 1, 70000}

\* a truncation that cuts the string and appends nothing
TruncateDist_noSuffix(s) ==
    IF Len(s) > BODY_MAX_LENGTH_dist
    THEN SubSeq(s, 1, BODY_MAX_LENGTH_dist)
    ELSE s

\* s.length > BODY_MAX_LENGTH
\*   ? s.substring(0, BODY_MAX_LENGTH) + "...[truncated]" : s
TruncateDist(s) ==
    IF Len(s) > BODY_MAX_LENGTH_dist
    THEN SubSeq(s, 1, BODY_MAX_LENGTH_dist) \o TruncatedSuffix
    ELSE s

\* getRequestBodyFromInit(init3) of the published build, for a string body
getRequestBodyFromInitDist(body) ==
    IF body.kind = "string" /\ body.text # <<>>
    THEN <<TruncateDist(body.text)>>
    ELSE getRequestBodyFromInit(body)

\* ---------------------------------------------------------------------------
\* The config object initEdge passes to init (src/edge.ts)
\* ---------------------------------------------------------------------------

\* a property of an object: not there, there with undefined, or there with v
NotGiven(v) == [given |-> FALSE, defined |-> FALSE, v |-> v]
GivenUndefined(v) == [given |-> TRUE, defined |-> FALSE, v |-> v]
Given(v) == [given |-> TRUE, defined |-> TRUE, v |-> v]

\* the config arguments of initEdge; initEdge() is the one with nothing given
EdgeConfigs ==
    [apiKey : {NotGiven(""), GivenUndefined(""), Given(""), Given("cfg-key")},
     endpoint : {NotGiven(""), GivenUndefined(""), Given("cfg-url")},
     debug : {NotGiven(FALSE), Given(FALSE), Given(TRUE)},
     batchSize : {NotGiven(0), GivenUndefined(0), Given(0), Given(20)},
     flushInterval : {NotGiven(0), GivenUndefined(0), Given(250)}]

\* process.env: OUTBOUNDIQ_KEY, OUTBOUNDIQ_URL, OUTBOUNDIQ_DEBUG === 'true'
EdgeEnvs ==
    [key : {NotGiven(""), Given("env-key")},
     url : {NotGiven(""), Given("env-url")},
     debugTrue : BOOLEAN]

\* a value of the object passed to init: undefined, or v
Undef(v) == [defined |-> FALSE, v |-> v]
Def(v) == [defined |-> TRUE, v |-> v]

\* config?.p as a value
Prop(p) == IF p.given /\ p.defined THEN Def(p.v) ELSE Undef(p.v)
\* a || b for strings, numbers and booleans that may be undefined
OrElse(a, falsy, b) == IF a.defined /\ a.v # falsy THEN a ELSE b
\* { p: computed, ...config }: an own property of config replaces the value
Spread(computed, p) == IF p.given THEN Prop(p) ELSE computed

\* initEdge(config): the object passed to init, <<>> when init is not called
initEdgeConfig(config, env, initialized) ==
    LET apiKey == OrElse(Prop(config.apiKey), "", Prop(env.key))
    IN  IF initialized THEN <<>>
        ELSE IF ~(apiKey.defined /\ apiKey.v # "") THEN <<>>
        ELSE <<[apiKey |-> Spread(apiKey, config.apiKey),
                endpoint |-> Spread(OrElse(Prop(config.endpoint), "", Prop(env.url)),
                                    config.endpoint),
                debug |-> Spread(OrElse(Prop(config.debug), FALSE, Def(env.debugTrue)),
                                 config.debug),
                batchSize |-> Spread(OrElse(Prop(config.batchSize), 0, Def(5)),
                                     config.batchSize),
                flushInterval |-> Spread(OrElse(Prop(config.flushInterval), 0, Def(1000)),
                                         config.flushInterval)]>>

\* ---------------------------------------------------------------------------
\* The functions applied to inputs
\* ---------------------------------------------------------------------------
ResolverNames ==
    {"defaultGetUserContext", "createClerkResolver", "createNextAuthResolver"}

\* the context header values getUserContextFromRequest is applied to
HeaderInputs ==
    {Absent, <<EmptyText>>, <<MalformedText>>, <<NullText>>}
    \cup {<<JSONstringify(UserContextOf(k))>> : k \in {"u1", "u2", "uOpaque"}}

\* ---------------------------------------------------------------------
\* The method of a trackFetch record (src/edge.ts)
\* ---------------------------------------------------------------------
\* Strings are sequences of characters here, so that toUpperCase acts on them.

Lowers ==
    <<"a","b","c","d","e","f","g","h","i","j","k","l","m",
      "n","o","p","q","r","s","t","u","v","w","x","y","z">>

Uppers ==
    <<"A","B","C","D","E","F","G","H","I","J","K","L","M",
      "N","O","P","Q","R","S","T","U","V","W","X","Y","Z">>

\* String.prototype.toUpperCase on the letters of a method name
toUpperCase(str) ==
    [i \in 1..Len(str) |->
        IF \E k \in 1..Len(Lowers) : Lowers[k] = str[i]
        THEN Uppers[CHOOSE k \in 1..Len(Lowers) : Lowers[k] = str[i]]
        ELSE str[i]]

GET == <<"G","E","T">>

POST == <<"P","O","S","T">>

\* the first argument of trackFetch: a string, a URL or a Request, which has
\* a method of its own
FetchInputs ==
    {[kind |-> k, method |-> GET] : k \in {"string", "URL"}}
    \cup {[kind |-> "Request", method |-> m] : m \in {GET, POST}}

\* the second argument of trackFetch: omitted, or an object whose method is
\* absent (<<>>) or a string (<<m>>), the empty string included
FetchInits ==
    {[given |-> FALSE, method |-> <<>>], [given |-> TRUE, method |-> <<>>]}
    \cup {[given |-> TRUE, method |-> <<m>>] :
              m \in {<<>>, <<"g","e","t">>, <<"p","o","s","t">>, POST,
                     <<"D","e","l","e","t","e">>, <<"p","a","t","c","h">>}}

\* const method = init?.method || 'GET', stored as method.toUpperCase()
trackFetchMethod(input, requestInit) ==
    LET method == IF requestInit.given /\ requestInit.method # <<>> /\ requestInit.method[1] # <<>>
                  THEN requestInit.method[1]
                  ELSE GET
    IN  toUpperCase(method)

\* a call about to be made: the function f and its argument
Pending(f, x) == [op |-> "pending", f |-> f, in |-> x]

PendingCalls ==
    {Pending(name, request) : name \in ResolverNames, request \in Requests}
    \cup {Pending("getUserContextFromClerk", a) : a \in ClerkAuths}
    \cup {Pending("getUserContextFromSession", x) : x \in Sessions}
    \cup {Pending("getUserContextFromRequest", h) : h \in HeaderInputs}
    \cup {Pending("requestBody", b) : b \in RequestBodies}
    \cup {Pending("responseBody", b) : b \in ResponseBodies}
    \cup {Pending("initEdge", [config |-> c, env |-> e, isInitialized |-> i]) :
              c \in EdgeConfigs, e \in EdgeEnvs, i \in BOOLEAN}
    \cup {Pending("requestBodyDist", [kind |-> "string", length |-> n]) :
              n \in DistBodyLengths}
    \cup {Pending("trackFetchMethod", [input |-> x, init |-> i]) :
              x \in FetchInputs, i \in FetchInits}

ApplyResolver ==
    /\ fn.op = "pending" /\ fn.f \in ResolverNames
    /\ fn' = [op |-> fn.f, in |-> fn.in,
              out |-> CASE fn.f = "defaultGetUserContext" ->
                             defaultGetUserContext(fn.in)
                        [] fn.f = "createClerkResolver" ->
                             createClerkResolver(fn.in)
                        [] OTHER -> createNextAuthResolver(fn.in)]
    /\ UNCHANGED <<ctxVars, edgeVars, mwVars>>

ApplyGetUserContextFromClerk ==
    /\ fn.op = "pending" /\ fn.f = "getUserContextFromClerk"
    /\ fn' = [op |-> fn.f, in |-> fn.in, out |-> getUserContextFromClerk(fn.in)]
    /\ UNCHANGED <<ctxVars, edgeVars, mwVars>>

ApplyGetUserContextFromSession ==
    /\ fn.op = "pending" /\ fn.f = "getUserContextFromSession"
    /\ fn' = [op |-> fn.f, in |-> fn.in, out |-> getUserContextFromSession(fn.in)]
    /\ UNCHANGED <<ctxVars, edgeVars, mwVars>>

ApplyGetUserContextFromRequest ==
    /\ fn.op = "pending" /\ fn.f = "getUserContextFromRequest"
    /\ fn' = [op |-> fn.f, in |-> fn.in, out |-> getUserContextFromRequest(fn.in)]
    /\ UNCHANGED <<ctxVars, edgeVars, mwVars>>

\* trackFetch captures the request body and stores it in the record
CaptureRequestBody ==
    /\ fn.op = "pending" /\ fn.f = "requestBody"
    /\ fn' = [op |-> fn.f, in |-> fn.in,
              captured |-> getRequestBodyFromInit(fn.in),
              out |-> safeStringify(getRequestBodyFromInit(fn.in), BODY_MAX_LENGTH)]
    /\ UNCHANGED <<ctxVars, edgeVars, mwVars>>

\* trackFetch captures the response body and stores it in the record
CaptureResponseBody ==
    /\ fn.op = "pending" /\ fn.f = "responseBody"
    /\ fn' = [op |-> fn.f, in |-> fn.in,
              captured |-> getResponseBodyForTracking(fn.in),
              out |-> safeStringify(getResponseBodyForTracking(fn.in), BODY_MAX_LENGTH)]
    /\ UNCHANGED <<ctxVars, edgeVars, mwVars>>

\* what is seen of a stored body: whether there is one, its length, its last
\* characters (as many as the suffix has) and whether it begins with the first
\* BODY_MAX_LENGTH characters of the body given
StoredBody(given, stored) ==
    IF stored = <<>>
    THEN [present |-> FALSE, length |-> 0, tail |-> <<>>, headKept |-> FALSE]
    ELSE LET v == stored[1]
             k == IF Len(given) < BODY_MAX_LENGTH_dist THEN Len(given)
                  ELSE BODY_MAX_LENGTH_dist
         IN  [present |-> TRUE, length |-> Len(v),
              tail |-> SubSeq(v, Len(v) - Len(TruncatedSuffix) + 1, Len(v)),
              headKept |-> Len(v) >= k /\ SubSeq(v, 1, k) = SubSeq(given, 1, k)]

\* trackFetch of the published build captures the request body, a string of
\* fn.in.length characters, and stores it in the record
CaptureRequestBodyDist ==
    /\ fn.op = "pending" /\ fn.f = "requestBodyDist"
    /\ LET body == [kind |-> fn.in.kind, text |-> Text(fn.in.length)]
           requestBody == getRequestBodyFromInitDist(body)
       IN  fn' = [op |-> fn.f, in |-> fn.in,
                  out |-> StoredBody(body.text,
                              safeStringify(requestBody, BODY_MAX_LENGTH_dist))]
    /\ UNCHANGED <<ctxVars, edgeVars, mwVars>>

\* initEdge(config) is called; out holds the calls it makes to init
ApplyInitEdge ==
    /\ fn.op = "pending" /\ fn.f = "initEdge"
    /\ fn' = [op |-> fn.f, in |-> fn.in,
              out |-> initEdgeConfig(fn.in.config, fn.in.env, fn.in.isInitialized)]
    /\ UNCHANGED <<ctxVars, edgeVars, mwVars>>

\* trackFetch(input, init) builds the method of its record
TrackFetchMethod ==
    /\ fn.op = "pending" /\ fn.f = "trackFetchMethod"
    /\ fn' = [op |-> fn.f, in |-> fn.in,
              out |-> trackFetchMethod(fn.in.input, fn.in.init)]
    /\ UNCHANGED <<ctxVars, edgeVars, mwVars>>

FnInit ==
    /\ ScopedInit
    /\ envKey = TRUE
    /\ EdgeIdle
    /\ mw = IdleMw
    /\ fn \in PendingCalls

FnNext ==
    \/ ApplyResolver
    \/ ApplyGetUserContextFromClerk
    \/ ApplyGetUserContextFromSession
    \/ ApplyGetUserContextFromRequest
    \/ CaptureRequestBody
    \/ CaptureResponseBody
    \/ CaptureRequestBodyDist
    \/ ApplyInitEdge
    \/ TrackFetchMethod

SpecFn == FnInit /\ [][FnNext]_vars

\* the auth signals of a request as the claim lists them: a header or cookie
\* that is present
SignalPresent(request) ==
    \/ Has(request.xUserId) \/ Has(request.xAuthenticatedUser)
    \/ Has(request.nextAuthToken) \/ Has(request.secureNextAuthToken)
    \/ Has(request.session) \/ Has(request.clerkDbJwt)
    \/ Has(request.authorization)

\* the auth signals with the user id headers counted only when non-empty
SignalGiven(request) ==
    \/ Truthy(Get(request.xUserId)) \/ Truthy(Get(request.xAuthenticatedUser))
    \/ Has(request.nextAuthToken) \/ Has(request.secureNextAuthToken)
    \/ Has(request.session) \/ Has(request.clerkDbJwt)
    \/ Has(request.authorization)

UnderApi(path) == Len(path) >= 4 /\ SubSeq(path, 1, 4) = <<"/", "a", "p", "i">>

PathAndMethod(request) ==
    << <<"path", Val("string", request.path)>>,
       <<"method", Val("string", request.method)>> >>

\* C12 as stated: the default resolver gives context anonymous and userId null
\* when no auth signal is present, authenticated when any auth signal is present
\* and the path is not under /api, api when the authorization header is present
\* and the path starts with /api; metadata is {path, method}.
C12_DefaultResolverPolicy ==
    fn.op = "defaultGetUserContext"
    => /\ ~SignalPresent(fn.in)
            => fn.out.context = "anonymous" /\ fn.out.userId = Null
       /\ (SignalPresent(fn.in) /\ ~UnderApi(fn.in.path))
            => fn.out.context = "authenticated"
       /\ (Has(fn.in.authorization) /\ UnderApi(fn.in.path))
            => fn.out.context = "api"
       /\ fn.out.metadata = PathAndMethod(fn.in)

\* C12 as amended: the same, an x-user-id or x-authenticated-user header
\* counting as an auth signal only when its value is not empty.
C12_DefaultResolverPolicyNonEmpty ==
    fn.op = "defaultGetUserContext"
    => /\ ~SignalGiven(fn.in)
            => fn.out.context = "anonymous" /\ fn.out.userId = Null
       /\ (SignalGiven(fn.in) /\ ~UnderApi(fn.in.path))
            => fn.out.context = "authenticated"
       /\ (Has(fn.in.authorization) /\ UnderApi(fn.in.path))
            => fn.out.context = "api"
       /\ fn.out.metadata = PathAndMethod(fn.in)

\* the default resolver has classified a request under /api with an
\* authorization header and an empty x-user-id header
C12_Witness ==
    /\ fn.op = "defaultGetUserContext"
    /\ fn.in.xUserId = <<"">> /\ Has(fn.in.authorization) /\ UnderApi(fn.in.path)
    /\ fn.out.context = "api" /\ fn.out.userId = Null

ResolverOps ==
    ResolverNames \cup {"getUserContextFromClerk", "getUserContextFromSession"}

\* C13: every UserContext a built-in resolver produces has context
\* authenticated or api whenever userId is non-null, and userId null whenever
\* context is anonymous.
C13_ContextMatchesUserId ==
    fn.op \in ResolverOps
    => /\ fn.out.userId # Null => fn.out.context \in {"authenticated", "api"}
       /\ fn.out.context = "anonymous" => fn.out.userId = Null

\* the Clerk resolver has found a session and a user id
C13_Witness ==
    /\ fn.op = "createClerkResolver"
    /\ fn.out.userId = "clerk_1" /\ fn.out.context = "authenticated"

\* C15: getUserContextFromRequest never throws; it returns null when the
\* context header is missing and when its value is not well-formed JSON.
C15_ExtractNeverThrows ==
    fn.op = "getUserContextFromRequest"
    => /\ ~fn.out.threw
       /\ fn.in = Absent => fn.out.value = <<>>
       /\ (fn.in # Absent /\ fn.in[1].kind = "malformed") => fn.out.value = <<>>

\* a malformed header value has been read as "no context"
C15_Witness ==
    /\ fn.op = "getUserContextFromRequest"
    /\ fn.in = <<MalformedText>>
    /\ fn.out = [threw |-> FALSE, value |-> <<>>]

\* C20: a body string captured by trackFetch that is longer than
\* BODY_MAX_LENGTH is stored as its first BODY_MAX_LENGTH characters followed
\* by "...[truncated]"; a string at or under the maximum is stored as it is.
C20_BodyTruncation ==
    (fn.op \in {"requestBody", "responseBody"}
        /\ fn.in.kind \in {"string", "URLSearchParams", "text"}
        /\ fn.captured # <<>>)
    => /\ fn.out # <<>>
       /\ IF Len(fn.in.text) > BODY_MAX_LENGTH
          THEN /\ Len(fn.out[1]) = BODY_MAX_LENGTH + Len(TruncatedSuffix)
               /\ SubSeq(fn.out[1], 1, BODY_MAX_LENGTH)
                    = SubSeq(fn.in.text, 1, BODY_MAX_LENGTH)
               /\ SubSeq(fn.out[1], BODY_MAX_LENGTH + 1, Len(fn.out[1]))
                    = TruncatedSuffix
          ELSE fn.out[1] = fn.in.text

\* a request body one character over the maximum has been stored truncated
C20_Witness ==
    /\ fn.op = "requestBody" /\ fn.in.kind = "string"
    /\ Len(fn.in.text) = BODY_MAX_LENGTH + 1
    /\ Len(fn.out[1]) = BODY_MAX_LENGTH + Len(TruncatedSuffix)

\* the generic placeholder
GenericPlaceholder == <<"[", "B", "o", "d", "y", "]">>

\* a descriptive placeholder: bracketed text that names the body type and is
\* not the generic one
Descriptive(s, name) ==
    /\ Len(s) >= Len(name) + 2
    /\ s[1] = "[" /\ s[Len(s)] = "]"
    /\ SubSeq(s, 2, Len(name) + 1) = name
    /\ s # GenericPlaceholder

\* the string s as it is when within the maximum, cut and marked otherwise
PassedThrough(s, captured) ==
    /\ captured # <<>>
    /\ IF Len(s) > BODY_MAX_LENGTH
       THEN captured[1] = SubSeq(s, 1, BODY_MAX_LENGTH) \o TruncatedSuffix
       ELSE captured[1] = s

C21_Stored60015 ==
    (fn.op = "requestBodyDist" /\ fn.in.length = 70000)
    => /\ fn.out.present
       /\ fn.out.length = 60015
       /\ fn.out.tail = TruncatedSuffix

\* C21 as amended: the stored requestBody has length 60014 (the 60,000
\* characters kept and the 14 of the suffix) and ends with "...[truncated]".
C21_Stored60014 ==
    (fn.op = "requestBodyDist" /\ fn.in.length = 70000)
    => /\ fn.out.present
       /\ fn.out.length = 60014
       /\ fn.out.tail = TruncatedSuffix

\* the 70,000-character body has been stored, cut after its first 60,000
\* characters
C21_Witness ==
    /\ fn.op = "requestBodyDist" /\ fn.in.length = 70000
    /\ fn.out.present /\ fn.out.headKept /\ fn.out.length < 70000

\* the request context store on its own
StoreInit == CtxInit /\ envKey = TRUE /\ EdgeIdle /\ mw = IdleMw /\ fn = IdleFn

SpecCtx == StoreInit /\ [][CtxNext]_vars

\* C1: isolation. An observation made inside a runWithContext scope whose
\* RequestContext no other request uses returns the userContext of the
\* observing request itself (the one it was created with or last set), whatever
\* the other requests did in between.
C1_Isolation ==
    (seen.made /\ seen.scope # Undefined /\ ~seen.shared) => seen.user = seen.want

\* a request observes its own user while another request, in its own scope,
\* holds a different user
C1_Witness ==
    /\ seen.made /\ seen.scope # Undefined /\ ~seen.shared
    /\ seen.user \in Users
    /\ \E t2 \in Tasks :
          /\ taskPc[t2] = "run"
          /\ root[t2] # root[seen.task]
          /\ scope[t2] \notin {Undefined, seen.scope}
          /\ own[root[t2]] \in Users \ {seen.user}

\* C2: every getRequestContext() made by the function of runWithContext(c, fn)
\* or by a continuation it scheduled returns c; outside every scope it returns
\* no context and getCurrentUserContext() returns null.
C2_SameInstance ==
    seen.made => /\ seen.ctx = seen.scope
                 /\ (seen.scope = Undefined => seen.user = Null)

\* a continuation observes the context of the scope that scheduled it
C2_Witness ==
    /\ seen.made
    /\ seen.scope # Undefined
    /\ root[seen.task] # seen.task
    /\ seen.ctx = seen.scope


\* the register module in a process with request scopes
RegInit == CtxInit /\ envKey \in BOOLEAN /\ EdgeIdle /\ mw = IdleMw /\ fn = IdleFn

RegNext ==
    \/ \E c \in Ctxs, u \in UserVals : CreateRequestContext(c, u)
    \/ \E t \in Tasks, c \in Ctxs : RunWithContext(t, c)
    \/ \E t \in Tasks : RunOutside(t)
    \/ \E p \in Tasks, t \in Tasks : Schedule(p, t)
    \/ \E t \in Tasks, u \in UserVals : SetCurrentUserContext(t, u)
    \/ RegisterLoad
    \/ \E t \in Tasks : ResolverAsk(t)

SpecReg == RegInit /\ [][RegNext]_vars

\* how often a call occurs among the calls of the register module
Occurrences(name) == Cardinality({i \in DOMAIN reg.calls : reg.calls[i] = name})

\* C25: loading the register module with the API key set calls init, then
\* setUserContextResolver, then the transport patch, each exactly once and in
\* that order, and the registered resolver returns getCurrentUserContext() of
\* the asking lineage (the scope's userContext inside runWithContext, null
\* outside); with the key absent none of init, setUserContextResolver, the
\* patch and the signal handler registration is called.
C25_RegisterLoad ==
    /\ (registerLoaded /\ envKey)
          => /\ Len(reg.calls) >= 3
             /\ SubSeq(reg.calls, 1, 3) = <<"init", "setUserContextResolver", "register">>
             /\ \A name \in {"init", "setUserContextResolver", "register"} :
                   Occurrences(name) = 1
    /\ ~envKey => reg.calls = <<>> /\ initLog = <<>>
    /\ reg.asked.made => reg.asked.answer = reg.asked.ambient

\* wrapped handlers in one process
WrappedInit == ScopedInit /\ envKey = TRUE /\ EdgeIdle /\ mw = IdleMw /\ fn = IdleFn

WrappedNext ==
    \/ \E h \in Handlers, u \in Users : WrappedCall(h, u)
    \/ \E h \in Handlers : WrappedEnter(h)
    \/ \E h \in Handlers, out \in {"R", "Y"} : WrappedSettle(h, out)

SpecWrapped == WrappedInit /\ [][WrappedNext]_vars

\* C26: while a handler wrapped with user context A is running, the value last
\* passed to setUserContext is A, whatever other wrapped handlers do in the
\* meantime; once a wrapped handler has settled and none is in flight, the
\* value is null.
C26_WrappedIsolation ==
    /\ \A h \in Handlers :
          wrapped.pc[h] = "running" => wrapped.current = wrapped.user[h]
    /\ (wrapped.settled > 0 /\ \A h \in Handlers : wrapped.pc[h] = "idle")
          => wrapped.current = Null

\* the value the claim gives a field: the one config supplies, otherwise the
\* environment value, otherwise the default
Merged(p, envValue, default) ==
    IF p.given /\ p.defined THEN Def(p.v)
    ELSE IF envValue.defined THEN envValue ELSE default

\* an API key is available: a non-empty one in config or in the environment
KeyAvailable(config, env) ==
    \/ config.apiKey.given /\ config.apiKey.defined /\ config.apiKey.v # ""
    \/ env.key.given /\ env.key.v # ""

\* C24: initEdge(config), when not yet initialized and an API key is available,
\* calls init once with each field equal to the value config supplies, else the
\* environment value, else the edge default (batchSize 5, flushInterval 1000),
\* the apiKey being the non-empty key that passed the guard; when already
\* initialized it calls nothing.
C24_InitEdgeMerge ==
    fn.op = "initEdge"
    => LET config == fn.in.config
           env == fn.in.env
       IN  /\ fn.in.isInitialized => fn.out = <<>>
           /\ (~fn.in.isInitialized /\ KeyAvailable(config, env))
                => /\ Len(fn.out) = 1
                   /\ fn.out[1].apiKey.defined /\ fn.out[1].apiKey.v # ""
                   /\ fn.out[1].apiKey =
                        OrElse(Prop(config.apiKey), "", Prop(env.key))
                   /\ fn.out[1].endpoint =
                        Merged(config.endpoint, Prop(env.url), Undef(""))
                   /\ fn.out[1].debug =
                        Merged(config.debug, Undef(FALSE), Def(env.debugTrue))
                   /\ fn.out[1].batchSize =
                        Merged(config.batchSize, Undef(0), Def(5))
                   /\ fn.out[1].flushInterval =
                        Merged(config.flushInterval, Undef(0), Def(1000))

\* C23: setCurrentUserContext(uc) writes uc into the RequestContext that is
\* active for the caller, so that getCurrentUserContext() then returns uc in
\* every lineage of the same scope, continuations scheduled earlier included;
\* the contexts of all other scopes keep their userContext; with no context
\* active the call changes nothing of the store.
C23_SetInPlace ==
    [][ \A t \in Tasks, u \in UserVals :
          SetCurrentUserContext(t, u)
          => /\ scope[t] # Undefined
                  => \A t2 \in Tasks :
                        (taskPc[t2] = "run" /\ root[t2] = root[t])
                        => /\ store'[t2] = scope[t]
                           /\ ctxUser'[store'[t2]] = u
             /\ \A c \in Ctxs : c # scope[t] => ctxUser'[c] = ctxUser[c]
             /\ scope[t] = Undefined
                  => UNCHANGED <<ctxAlloc, ctxUser, taskPc, store, scope, root>> ]_vars

\* a lineage and an earlier continuation of its scope see the user the scope
\* has set on a context that another scope had entered with a different user,
\* while a second context holds yet another value
C23_Witness ==
    \E t \in Tasks, t2 \in Tasks, t3 \in Tasks :
        /\ taskPc[t] = "run" /\ taskPc[t2] = "run" /\ taskPc[t3] = "run"
        /\ t # t2 /\ root[t2] = root[t] /\ scope[t] # Undefined
        /\ getCurrentUserContext(t) = own[root[t]]
        /\ getCurrentUserContext(t2) = own[root[t]]
        /\ own[root[t]] \in Users
        /\ root[t3] # root[t] /\ scope[t3] = scope[t]
        /\ own[root[t3]] # ctxUser[scope[t]]
        /\ \E c \in ctxAlloc : c # scope[t] /\ ctxUser[c] # own[root[t]]

\* the methods fetch normalizes to upper case, whatever their case
NormalizedMethods ==
    {<<"D","E","L","E","T","E">>, GET, <<"H","E","A","D">>,
     <<"O","P","T","I","O","N","S">>, POST, <<"P","U","T">>}

\* the method of the request fetch(input, init) issues: init.method when init
\* has one, else the method of a Request given as input, else GET; <<>> when
\* fetch rejects the method (the empty string) and issues nothing
IssuedMethod(input, requestInit) ==
    LET m == IF requestInit.given /\ requestInit.method # <<>> THEN requestInit.method[1]
             ELSE input.method
    IN  IF m = <<>> THEN <<>>
        ELSE IF toUpperCase(m) \in NormalizedMethods THEN <<toUpperCase(m)>>
        ELSE <<m>>

\* C30: the method of a record produced by trackFetch is the upper-cased
\* method of the request that was issued: init.method when given, the method
\* of the Request object when the input is a Request and init.method is
\* omitted, and GET only when neither specifies a method.
C30_RecordMethodIsIssuedMethod ==
    (fn.op = "trackFetchMethod"
        /\ IssuedMethod(fn.in.input, fn.in.init) # <<>>)
    => fn.out = toUpperCase(IssuedMethod(fn.in.input, fn.in.init)[1])

====
